---- MODULE Spec2Model ----
(***************************************************************************)
(* Model of the trace viewer of vscode-clang-time-tracer (src/canvas.ts):  *)
(* the event ingestor (preprocess / computeDepth), the viewport (resetView,*)
(* clampView, wheel zoom, pan), selection / context menu, and the 'update' *)
(* message handler.                                                        *)
(*                                                                         *)
(* JavaScript numbers that can be fractional (view.x, view.scale and what  *)
(* is derived from them) are modelled as exact extended rationals          *)
(* [n, d]: d > 0 is the fraction n/d in lowest terms, d = 0 is +Infinity   *)
(* (n = 1), -Infinity (n = -1) or NaN (n = 0). Rounding and the sign of    *)
(* zero are not modelled. Timestamps, pixel sizes of the window and mouse  *)
(* coordinates are integers.                                               *)
(***************************************************************************)
EXTENDS Integers, Sequences, FiniteSets, TLC

VARIABLES
    data,               \* window.initialData / event.data of the last 'update'
    source,             \* what the layout was built from: "none", "initial", "update"
    threads,            \* let threads: Thread[]
    maxTraceTime,       \* let maxTraceTime
    totalContentHeight, \* let totalContentHeight
    selectedEvent,      \* let selectedEvent: ProcessedEvent | null
    rightClickedEvent,  \* let rightClickedEvent: ProcessedEvent | null
    view,               \* let view: ViewState  (x, y, scale)
    viewFitted,         \* resetView has assigned the view since the layout was built
    canvas,             \* canvas.width / canvas.height
    win,                \* window.innerWidth / innerHeight, documentElement.clientWidth
    frame,              \* what the last render() drew
    isDragging,         \* let isDragging
    lastMouse,          \* let lastMouse
    tooltip,            \* tooltip.style.display = 'block'
    contextMenu,        \* contextMenu.style.display = 'block'
    posted,             \* what the last listener handed to vscode.postMessage
    zooms,              \* number of wheel events since resetView last assigned the view
    ready,              \* the body of the script has run and the listeners are registered
    gesture,            \* the press of the primary button the browser is delivering
    dbFile,             \* content of compile_commands.json at the configured path
    commands,           \* CompilationDatabase.commands
    loads,              \* the calls of loadDatabase, in the order they started
    loadingPromise,     \* CompilationDatabase.loadingPromise: the call it belongs to
    clearedAt           \* number of calls started when commands was last cleared by a delete

\* the state of the webview script
webview == <<data, source, threads, maxTraceTime, totalContentHeight, selectedEvent,
             rightClickedEvent, view, viewFitted, canvas, win, frame, isDragging,
             lastMouse, tooltip, contextMenu, posted, zooms, ready>>

\* the state of the CompilationDatabase of the extension host
host == <<dbFile, commands, loads, loadingPromise, clearedAt>>

vars == <<webview, gesture, host>>

(***************************************************************************)
(* Bounds of the model.                                                    *)
(***************************************************************************)
MaxEvents == 3
MaxTs == 3
MaxPairEvents == 3
MaxPairTs == 2
MaxZooms == 1
MaxLoads == 3
MaxVersions == 2

(***************************************************************************)
(* CONFIG                                                                  *)
(***************************************************************************)
TIMELINE_HEIGHT == 40
MARGIN_SIDE == 40
DEFAULT_ROW_HEIGHT == 24
DEFAULT_TRACK_SPACING == 30
MIN_TICK_GAP == 160
MAX_SCALE == 10000

(***************************************************************************)
(* Extended rationals.                                                     *)
(***************************************************************************)
Abs(i) == IF i < 0 THEN -i ELSE i

Sign(i) == IF i < 0 THEN -1 ELSE IF i > 0 THEN 1 ELSE 0

RECURSIVE Gcd(_, _)
Gcd(a, b) == IF b = 0 THEN a ELSE Gcd(b, a % b)

Q(n, d) ==
    IF d = 0 THEN [n |-> Sign(n), d |-> 0]
    ELSE LET g == Gcd(Abs(n), Abs(d))
         IN  [n |-> Sign(d) * (n \div g), d |-> Abs(d) \div g]

QInt(i) == [n |-> i, d |-> 1]

QNaN == [n |-> 0, d |-> 0]

IsNaN(a) == a.d = 0 /\ a.n = 0

IsFinite(a) == a.d > 0

\* common factors are cancelled before multiplying, which keeps the
\* intermediate integers small
QMul(a, b) ==
    IF a.d = 0 \/ b.d = 0 \/ a.n = 0 \/ b.n = 0 THEN Q(a.n * b.n, a.d * b.d)
    ELSE LET g1 == Gcd(Abs(a.n), b.d)
             g2 == Gcd(Abs(b.n), a.d)
         IN  [n |-> (a.n \div g1) * (b.n \div g2), d |-> (a.d \div g2) * (b.d \div g1)]

QRecip(b) ==
    IF b.d = 0 THEN (IF b.n = 0 THEN QNaN ELSE QInt(0))
    ELSE IF b.n = 0 THEN [n |-> 1, d |-> 0]
    ELSE [n |-> Sign(b.n) * b.d, d |-> Abs(b.n)]

QDiv(a, b) == QMul(a, QRecip(b))

QAdd(a, b) ==
    IF IsNaN(a) \/ IsNaN(b) THEN QNaN
    ELSE IF a.d = 0 /\ b.d = 0 THEN (IF a.n = b.n THEN a ELSE QNaN)
    ELSE IF a.d = 0 THEN a
    ELSE IF b.d = 0 THEN b
    ELSE LET g == Gcd(a.d, b.d)
         IN  Q(a.n * (b.d \div g) + b.n * (a.d \div g), (a.d \div g) * b.d)

QNeg(a) == [n |-> -a.n, d |-> a.d]

QSub(a, b) == QAdd(a, QNeg(b))

\* a < b ; false when either side is NaN
QLt(a, b) ==
    IF IsNaN(a) \/ IsNaN(b) THEN FALSE
    ELSE IF a.d = 0 /\ b.d = 0 THEN a.n < b.n
    ELSE IF a.d = 0 THEN a.n < 0
    ELSE IF b.d = 0 THEN b.n > 0
    ELSE LET g == Gcd(a.d, b.d)
         IN  a.n * (b.d \div g) < b.n * (a.d \div g)

QGt(a, b) == QLt(b, a)

\* a <= b ; false when either side is NaN
QLe(a, b) == ~IsNaN(a) /\ ~IsNaN(b) /\ ~QLt(b, a)

QGe(a, b) == QLe(b, a)

\* Math.max / Math.min : NaN when either argument is NaN
QMax(a, b) == IF IsNaN(a) \/ IsNaN(b) THEN QNaN ELSE IF QLt(a, b) THEN b ELSE a

QMin(a, b) == IF IsNaN(a) \/ IsNaN(b) THEN QNaN ELSE IF QLt(b, a) THEN b ELSE a

Max(a, b) == IF a < b THEN b ELSE a

(***************************************************************************)
(* Raw trace events (interface TraceEvent). A raw event is a record with   *)
(* the fields ph, name, ts and, each optional, tid, cat, dur, detail       *)
(* (args.detail). A tid is [k |-> "num", v |-> i] or [k |-> "str", s |-> t].*)
(* A detail string is the sequence of its characters, "" being <<>>.       *)
(***************************************************************************)
NumTid(i) == [k |-> "num", v |-> i]

StrTid(t) == [k |-> "str", s |-> t]

\* Number.prototype.toString for the small thread ids of the model
NumStr(i) == <<"0", "1", "2", "3", "4", "5", "6", "7", "8", "9">>[i + 1]

\* e.tid.toString()
TidToString(tid) == IF tid.k = "num" THEN NumStr(tid.v) ELSE tid.s

\* `${tidStr}-${e.name}`
OpenKey(tidStr, name) == tidStr \o "-" \o name

\* e.cat === "Source" || e.name === "Source"
IsSource(e) == ("cat" \in DOMAIN e /\ e.cat = "Source") \/ e.name = "Source"

\* e.dur || 0
DurOrZero(e) == IF "dur" \in DOMAIN e THEN e.dur ELSE 0

\* e.args?.detail || ""
DetailOrEmpty(e) == IF "detail" \in DOMAIN e THEN e.detail ELSE <<>>

\* a preprocess that keeps the extent of the previous dataset
ResetMaxTraceTime_Keep(prev) == prev

\* maxTraceTime = 0 at the start of preprocess
ResetMaxTraceTime(prev) == 0

\* an assignment without the comparison: the last end wins
RaiseMaxTraceTime_Last(cur, end) == end

\* if (end > maxTraceTime) { maxTraceTime = end; }
RaiseMaxTraceTime(cur, end) == IF end > cur THEN end ELSE cur

\* const proc: ProcessedEvent = {...} for a complete ('X') event
CompleteEvent(e, tidStr, id) ==
    [id |-> id, name |-> e.name, detail |-> DetailOrEmpty(e), start |-> e.ts,
     dur |-> DurOrZero(e), end |-> e.ts + DurOrZero(e), tid |-> tidStr, depth |-> 0]

\* const proc: ProcessedEvent = {...} for an end event e and the popped begin
PairedEvent(startEvent, e, tidStr, id) ==
    [id |-> id, name |-> startEvent.name, detail |-> DetailOrEmpty(startEvent),
     start |-> startEvent.ts, dur |-> e.ts - startEvent.ts, end |-> e.ts,
     tid |-> tidStr, depth |-> 0]

\* index of the entry of tidStr in the thread map (0 when absent)
ThreadIndex(threadMap, tidStr) ==
    IF \E i \in 1..Len(threadMap) : threadMap[i].tid = tidStr
    THEN CHOOSE i \in 1..Len(threadMap) : threadMap[i].tid = tidStr
    ELSE 0

\* if (!threadMap[tidStr]) { threadMap[tidStr] = { sources: [], main: [] }; }
EnsureThread(threadMap, tidStr) ==
    IF ThreadIndex(threadMap, tidStr) # 0 THEN threadMap
    ELSE Append(threadMap, [tid |-> tidStr, sources |-> <<>>, main |-> <<>>])

\* if (isSource) { threadMap[tidStr].sources.push(proc); } else { ....main.push(proc); }
PushProc(threadMap, tidStr, isSource, proc) ==
    LET i == ThreadIndex(threadMap, tidStr)
    IN  IF isSource
        THEN [threadMap EXCEPT ![i].sources = Append(@, proc)]
        ELSE [threadMap EXCEPT ![i].main = Append(@, proc)]

\* openEvents[key] (undefined keys read as the empty stack)
OpenStack(openEvents, key) ==
    IF key \in DOMAIN openEvents THEN openEvents[key] ELSE <<>>

\* openEvents[key].push(e), creating the array first when needed
PushOpen(openEvents, key, e) ==
    [k \in DOMAIN openEvents \cup {key} |-> 
        IF k = key THEN Append(OpenStack(openEvents, key), e) ELSE openEvents[k]]

\* the element openEvents[key]?.pop() returns: position in the stack
PopIndex(stack) == Len(stack)

\* the stack left by openEvents[key]?.pop()
PopOpen(openEvents, key) ==
    LET st == openEvents[key]
        i == PopIndex(st)
    IN  [openEvents EXCEPT ![key] =
            [j \in 1..(Len(st) - 1) |-> IF j < i THEN st[j] ELSE st[j + 1]]]

\* the body of events.forEach(e => {...}) in preprocess; g is the epoch of
\* the objects it allocates
IngestEvent(st, e, g) ==
    IF "tid" \notin DOMAIN e THEN st
    ELSE
    LET tidStr == TidToString(e.tid)
        tm == EnsureThread(st.threadMap, tidStr)
        key == OpenKey(tidStr, e.name)
        id == <<g, st.made + 1>>
    IN  IF e.ph = "X" THEN
            LET proc == CompleteEvent(e, tidStr, id)
            IN  [st EXCEPT !.threadMap = PushProc(tm, tidStr, IsSource(e), proc),
                           !.maxTraceTime = RaiseMaxTraceTime(@, proc.end),
                           !.made = @ + 1]
        ELSE IF e.ph = "b" THEN
            [st EXCEPT !.threadMap = tm,
                       !.openEvents = PushOpen(@, key, e)]
        ELSE IF e.ph = "e" THEN
            IF OpenStack(st.openEvents, key) # <<>> THEN
                LET stack == st.openEvents[key]
                    startEvent == stack[PopIndex(stack)]
                    proc == PairedEvent(startEvent, e, tidStr, id)
                IN  [st EXCEPT !.threadMap = PushProc(tm, tidStr, IsSource(e), proc),
                               !.openEvents = PopOpen(@, key),
                               !.maxTraceTime = RaiseMaxTraceTime(@, e.ts),
                               !.made = @ + 1]
            ELSE [st EXCEPT !.threadMap = tm]
        ELSE [st EXCEPT !.threadMap = tm]

\* the locals of preprocess before the forEach
IngestStart(prevMax) ==
    [threadMap |-> <<>>, openEvents |-> <<>>, maxTraceTime |-> ResetMaxTraceTime(prevMax),
     made |-> 0]

\* events.forEach(...) over the first n raw events
RECURSIVE IngestPrefix(_, _, _, _)
IngestPrefix(events, n, prevMax, g) ==
    IF n = 0 THEN IngestStart(prevMax)
    ELSE IngestEvent(IngestPrefix(events, n - 1, prevMax, g), events[n], g)

\* a comparator that orders by start only
SortCompare_StartOnly(a, b) == a.start - b.start

(***************************************************************************)
(* computeDepth and the construction of threads.                           *)
(***************************************************************************)
\* the comparator of evs.sort: a.start - b.start || b.dur - a.dur
SortCompare(a, b) ==
    IF a.start - b.start # 0 THEN a.start - b.start ELSE b.dur - a.dur

\* Array.prototype.sort is stable: ev goes behind every element that does
\* not compare greater than it
RECURSIVE InsertSorted(_, _)
InsertSorted(sorted, ev) ==
    IF sorted = <<>> THEN <<ev>>
    ELSE IF SortCompare(sorted[Len(sorted)], ev) <= 0 THEN Append(sorted, ev)
    ELSE Append(InsertSorted(SubSeq(sorted, 1, Len(sorted) - 1), ev), sorted[Len(sorted)])

RECURSIVE SortEvents(_)
SortEvents(evs) ==
    IF evs = <<>> THEN <<>>
    ELSE InsertSorted(SortEvents(SubSeq(evs, 1, Len(evs) - 1)), evs[Len(evs)])

\* a loop condition that compares with the start of the top of the stack
Closed_ByStart(ev, top) == ev.start >= top.start

\* a loop condition that keeps an event that ends where the next one starts
Closed_Strict(ev, top) == ev.start > top.end

\* the condition of the while loop: ev.start >= stack[stack.length - 1].end
Closed(ev, top) == ev.start >= top.end

\* while (stack.length > 0 && ev.start >= stack[stack.length - 1].end) { stack.pop(); }
RECURSIVE PopClosed(_, _)
PopClosed(stack, ev) ==
    IF stack # <<>> /\ Closed(ev, stack[Len(stack)])
    THEN PopClosed(SubSeq(stack, 1, Len(stack) - 1), ev)
    ELSE stack

\* evs.forEach(ev => {...}) of computeDepth over the first n sorted events:
\* the events with their depth, the stack and maxD
RECURSIVE DepthPrefix(_, _)
DepthPrefix(sorted, n) ==
    IF n = 0 THEN [evs |-> <<>>, stack |-> <<>>, maxD |-> 0]
    ELSE LET r == DepthPrefix(sorted, n - 1)
             stack == PopClosed(r.stack, sorted[n])
             ev == [sorted[n] EXCEPT !.depth = Len(stack)]
         IN  [evs |-> Append(r.evs, ev), stack |-> Append(stack, ev),
              maxD |-> Max(r.maxD, ev.depth)]

\* computeDepth(evs): the sorted events with depths (evs is sorted in place)
\* and the returned maxD
computeDepth(evs) ==
    LET sorted == SortEvents(evs)
        r == DepthPrefix(sorted, Len(sorted))
    IN  [evs |-> r.evs, maxD |-> r.maxD]

\* Object.keys lists the integer-like keys first, in ascending numeric
\* order, then the other keys in insertion order. IndexKey is the numeric
\* value of an integer-like key, -1 for any other key.
IndexKey(k) ==
    IF \E i \in 0..9 : NumStr(i) = k THEN CHOOSE i \in 0..9 : NumStr(i) = k ELSE -1

\* position of entry i of the thread map in Object.keys(threadMap)
KeyRank(threadMap, i) ==
    LET isIdx(j) == IndexKey(threadMap[j].tid) >= 0
    IN  IF isIdx(i)
        THEN 1 + Cardinality({j \in 1..Len(threadMap) :
                    isIdx(j) /\ IndexKey(threadMap[j].tid) < IndexKey(threadMap[i].tid)})
        ELSE 1 + Cardinality({j \in 1..Len(threadMap) : isIdx(j)})
               + Cardinality({j \in 1..(i - 1) : ~isIdx(j)})

\* Object.keys(threadMap): the entries of the thread map in key order
ObjectKeys(threadMap) ==
    [r \in 1..Len(threadMap) |->
        threadMap[CHOOSE i \in 1..Len(threadMap) : KeyRank(threadMap, i) = r]]

\* threads = Object.keys(threadMap).map(tid => {...})
BuildThreads(threadMap) ==
    LET keys == ObjectKeys(threadMap)
    IN  [r \in 1..Len(keys) |->
            LET s == computeDepth(keys[r].sources)
                m == computeDepth(keys[r].main)
            IN  [tid |-> keys[r].tid, sourceEvents |-> s.evs, mainEvents |-> m.evs,
                 maxSourceDepth |-> s.maxD, maxMainDepth |-> m.maxD]]

\* the height of one thread: 20 + sourceH + 10 + mainH + view.trackSpacing
ThreadHeight(t) ==
    20 + (t.maxSourceDepth + 1) * DEFAULT_ROW_HEIGHT + 10
       + (t.maxMainDepth + 1) * DEFAULT_ROW_HEIGHT + DEFAULT_TRACK_SPACING

\* updateTotalHeight()
RECURSIVE SumHeights(_, _)
SumHeights(ths, n) ==
    IF n = 0 THEN 0 ELSE SumHeights(ths, n - 1) + ThreadHeight(ths[n])

updateTotalHeight(ths) == SumHeights(ths, Len(ths))

\* data.traceEvents || []
TraceEvents(d) == IF "traceEvents" \in DOMAIN d THEN d.traceEvents ELSE <<>>

\* preprocess(data): the new values of threads, maxTraceTime and
\* totalContentHeight; prevMax is maxTraceTime before the call, g the epoch
\* of the objects allocated
preprocess(d, prevMax, g) ==
    LET events == TraceEvents(d)
        st == IngestPrefix(events, Len(events), prevMax, g)
        ths == BuildThreads(st.threadMap)
    IN  [threads |-> ths, maxTraceTime |-> st.maxTraceTime,
         totalContentHeight |-> updateTotalHeight(ths),
         openEvents |-> st.openEvents]

(***************************************************************************)
(* Viewport: resetView, clampView, wheel zoom. view.rowHeight and          *)
(* view.trackSpacing are never assigned after initialisation and appear as *)
(* DEFAULT_ROW_HEIGHT and DEFAULT_TRACK_SPACING.                           *)
(***************************************************************************)
Null == [null |-> TRUE]

\* getClientWidth(): document.documentElement.clientWidth || window.innerWidth
getClientWidth(w) == IF w.clientWidth # 0 THEN w.clientWidth ELSE w.innerWidth

\* canvas.width = getClientWidth(); canvas.height = window.innerHeight;
FitCanvas(w) == [width |-> getClientWidth(w), height |-> w.innerHeight]

\* clampView without the left stop of x
ClampX_NoLeftStop(x, scale, cv, mtt) ==
    LET contentWidth == QMul(QInt(mtt), scale)
        availableWidth == QInt(cv.width)
    IN  IF QGt(contentWidth, QSub(availableWidth, QInt(MARGIN_SIDE * 2)))
        THEN IF QGt(x, QInt(MARGIN_SIDE)) THEN QInt(MARGIN_SIDE) ELSE x
        ELSE QInt(MARGIN_SIDE)

\* the horizontal half of clampView
ClampX(x, scale, cv, mtt) ==
    LET contentWidth == QMul(QInt(mtt), scale)
        availableWidth == QInt(cv.width)
    IN  IF QGt(contentWidth, QSub(availableWidth, QInt(MARGIN_SIDE * 2)))
        THEN LET minX == QSub(QSub(availableWidth, contentWidth), QInt(MARGIN_SIDE))
                 maxX == QInt(MARGIN_SIDE)
                 x1 == IF QGt(x, maxX) THEN maxX ELSE x
             IN  IF QLt(x1, minX) THEN minX ELSE x1
        ELSE QInt(MARGIN_SIDE)

\* clampView without the bottom stop of y
ClampY_NoBottomStop(y, cv, tch) ==
    LET marginY == TIMELINE_HEIGHT + 10
    IN  IF tch > cv.height - marginY
        THEN IF y > marginY THEN marginY ELSE y
        ELSE marginY

\* the vertical half of clampView
ClampY(y, cv, tch) ==
    LET marginY == TIMELINE_HEIGHT + 10
        minY == cv.height - tch - 40
    IN  IF tch > cv.height - marginY
        THEN LET y1 == IF y > marginY THEN marginY ELSE y
             IN  IF y1 < minY THEN minY ELSE y1
        ELSE marginY

\* clampView()
clampView(v, cv, mtt, tch) ==
    [x |-> ClampX(v.x, v.scale, cv, mtt), y |-> ClampY(v.y, cv, tch), scale |-> v.scale]

\* a fit to the whole canvas width, margins forgotten
FitScale_NoMargins(cv, mtt) == QDiv(QInt(cv.width), QInt(mtt))

\* the scale resetView computes
FitScale(cv, mtt) == QDiv(QInt(cv.width - (MARGIN_SIDE * 2)), QInt(mtt))

\* the assignments of resetView before clampView
ResetValue(cv, mtt) ==
    [x |-> QInt(MARGIN_SIDE), y |-> TIMELINE_HEIGHT + 20, scale |-> FitScale(cv, mtt)]

\* const delta = e.deltaY > 0 ? (1 - ZOOM_SENSITIVITY) : (1 + ZOOM_SENSITIVITY)
ZoomDelta(deltaY) == IF deltaY > 0 THEN Q(85, 100) ELSE Q(115, 100)

\* the scale bounded from above only
ClampScale_NoFloor(newScale, minScale) == QMin(newScale, QInt(MAX_SCALE))

\* Math.max(minScale, Math.min(newScale, CONFIG.VIEW.MAX_SCALE))
ClampScale(newScale, minScale) == QMax(minScale, QMin(newScale, QInt(MAX_SCALE)))

\* a wheel listener that rescales without moving x
ZoomView_KeepX(v, clientX, deltaY, cv, mtt) ==
    LET minScale == FitScale(cv, mtt)
        newScale == ClampScale(QMul(v.scale, ZoomDelta(deltaY)), minScale)
    IN  [x |-> v.x, y |-> v.y, scale |-> newScale]

\* the wheel listener up to (not including) clampView
ZoomView(v, clientX, deltaY, cv, mtt) ==
    LET mouseWorldX == QDiv(QSub(QInt(clientX), v.x), v.scale)
        minScale == FitScale(cv, mtt)
        newScale == ClampScale(QMul(v.scale, ZoomDelta(deltaY)), minScale)
    IN  [x |-> QSub(QInt(clientX), QMul(mouseWorldX, newScale)), y |-> v.y,
         scale |-> newScale]

\* the mousemove listener while dragging, up to (not including) clampView
PanView(v, clientX, clientY, last) ==
    [x |-> QAdd(v.x, QInt(clientX - last.x)), y |-> v.y + (clientY - last.y),
     scale |-> v.scale]

(***************************************************************************)
(* Hit testing.                                                            *)
(***************************************************************************)
\* isHit(ev, mx, my, offsetY)
isHit(ev, mx, my, offsetY, v) ==
    LET x == QAdd(QMul(QInt(ev.start), v.scale), v.x)
        w == QMax(QInt(1), QMul(QInt(ev.dur), v.scale))
        y == offsetY + (ev.depth * DEFAULT_ROW_HEIGHT)
    IN  /\ QGe(QInt(mx), x)
        /\ QLe(QInt(mx), QAdd(x, w))
        /\ my >= y
        /\ my <= y + (DEFAULT_ROW_HEIGHT - 1)

\* evs.find(ev => isHit(ev, mx, my, offsetY))
FindHit(evs, mx, my, offsetY, v) ==
    IF \E i \in 1..Len(evs) : isHit(evs[i], mx, my, offsetY, v)
    THEN evs[CHOOSE i \in 1..Len(evs) :
                /\ isHit(evs[i], mx, my, offsetY, v)
                /\ \A j \in 1..(i - 1) : ~isHit(evs[j], mx, my, offsetY, v)]
    ELSE Null

\* the for loop of getEventAtPosition from thread n on, currentY being the
\* top of thread n
RECURSIVE HitFrom(_, _, _, _, _, _)
HitFrom(ths, n, currentY, mx, my, v) ==
    IF n > Len(ths) THEN Null
    ELSE
    LET thread == ths[n]
        sourceH == (thread.maxSourceDepth + 1) * DEFAULT_ROW_HEIGHT
        mainH == (thread.maxMainDepth + 1) * DEFAULT_ROW_HEIGHT
        mainOffsetY == currentY + 20 + sourceH + 10
        inSource == IF my >= currentY + 20 /\ my <= currentY + 20 + sourceH
                    THEN FindHit(thread.sourceEvents, mx, my, currentY + 20, v)
                    ELSE Null
        inMain == IF my >= mainOffsetY /\ my <= mainOffsetY + mainH
                  THEN FindHit(thread.mainEvents, mx, my, mainOffsetY, v)
                  ELSE Null
    IN  IF inSource # Null THEN inSource
        ELSE IF inMain # Null THEN inMain
        ELSE HitFrom(ths, n + 1,
                     currentY + 20 + sourceH + 10 + mainH + DEFAULT_TRACK_SPACING,
                     mx, my, v)

\* getEventAtPosition(mx, my)
getEventAtPosition(ths, v, mx, my) == HitFrom(ths, 1, v.y, mx, my, v)

\* drawEvent(ev, rowOffsetY) up to its culling test: x, w, y
BarOrigin(ev, rowOffsetY, v) ==
    [x |-> QAdd(QMul(QInt(ev.start), v.scale), v.x),
     w |-> QMul(QInt(ev.dur), v.scale),
     y |-> rowOffsetY + (ev.depth * DEFAULT_ROW_HEIGHT)]

\* if (x + w < 0 || x > canvas.width || y + view.rowHeight < 0 || y > canvas.height) return
BarCulled(b, cv) ==
    \/ QLt(QAdd(b.x, b.w), QInt(0))
    \/ QGt(b.x, QInt(cv.width))
    \/ b.y + DEFAULT_ROW_HEIGHT < 0
    \/ b.y > cv.height

\* drawEvent(ev, rowOffsetY): the rectangle it fills, none when culled
drawEvent(ev, rowOffsetY, v, cv) ==
    LET b == BarOrigin(ev, rowOffsetY, v)
    IN  IF BarCulled(b, cv) THEN {}
        ELSE {[ev |-> ev, x |-> b.x, y |-> b.y,
               rectW |-> QMax(Q(1, 2), b.w), rectH |-> DEFAULT_ROW_HEIGHT - 1]}

\* the threads.forEach of render from thread n on, currentY being the top
\* of thread n: the rectangles drawn
RECURSIVE DrawFrom(_, _, _, _, _)
DrawFrom(ths, n, currentY, v, cv) ==
    IF n > Len(ths) THEN {}
    ELSE
    LET thread == ths[n]
        sourceH == (thread.maxSourceDepth + 1) * DEFAULT_ROW_HEIGHT
        mainH == (thread.maxMainDepth + 1) * DEFAULT_ROW_HEIGHT
        totalThreadH == 20 + sourceH + 10 + mainH + DEFAULT_TRACK_SPACING
        mainOffsetY == currentY + 20 + sourceH + 10
        rest == DrawFrom(ths, n + 1, currentY + totalThreadH, v, cv)
    IN  IF currentY + totalThreadH < TIMELINE_HEIGHT \/ currentY > cv.height
        THEN rest
        ELSE UNION {drawEvent(thread.sourceEvents[i], currentY + 20, v, cv) :
                        i \in 1..Len(thread.sourceEvents)}
             \cup UNION {drawEvent(thread.mainEvents[i], mainOffsetY, v, cv) :
                            i \in 1..Len(thread.mainEvents)}
             \cup rest

\* the bars render() draws on a canvas of size cv
DrawnBars(ths, v, cv) == DrawFrom(ths, 1, v.y, v, cv)

\* evs.forEach(ev => { drawEvent(ev, rowOffsetY); }) over the first n events
\* of a lane: the bars filled, in the order they are filled
RECURSIVE DrawLane(_, _, _, _, _, _)
DrawLane(evs, n, lane, rowOffsetY, v, cv) ==
    IF n = 0 THEN <<>>
    ELSE LET before == DrawLane(evs, n - 1, lane, rowOffsetY, v, cv)
             bar == drawEvent(evs[n], rowOffsetY, v, cv)
         IN  IF bar = {} THEN before
             ELSE Append(before, [step |-> "bar", tid |-> evs[n].tid, lane |-> lane,
                                  bar |-> CHOOSE b \in bar : TRUE])

\* the threads.forEach of render from thread n on, currentY being the top
\* of thread n: the drawing steps in the order they are made
RECURSIVE RenderFrom(_, _, _, _, _)
RenderFrom(ths, n, currentY, v, cv) ==
    IF n > Len(ths) THEN <<>>
    ELSE
    LET thread == ths[n]
        sourceH == (thread.maxSourceDepth + 1) * DEFAULT_ROW_HEIGHT
        mainH == (thread.maxMainDepth + 1) * DEFAULT_ROW_HEIGHT
        totalThreadH == 20 + sourceH + 10 + mainH + DEFAULT_TRACK_SPACING
        mainOffsetY == currentY + 20 + sourceH + 10
        rest == RenderFrom(ths, n + 1, currentY + totalThreadH, v, cv)
    IN  IF currentY + totalThreadH < TIMELINE_HEIGHT \/ currentY > cv.height
        THEN rest
        ELSE DrawLane(thread.sourceEvents, Len(thread.sourceEvents), "source",
                      currentY + 20, v, cv)
             \o DrawLane(thread.mainEvents, Len(thread.mainEvents), "main",
                         mainOffsetY, v, cv)
             \o <<[step |-> "separator", tid |-> thread.tid]>>
             \o rest

\* Math.pow(10, k) for an integer k
RECURSIVE Pow10(_)
Pow10(k) ==
    IF k = 0 THEN QInt(1)
    ELSE IF k > 0 THEN QMul(QInt(10), Pow10(k - 1))
    ELSE QDiv(Pow10(k + 1), QInt(10))

\* Math.floor(Math.log10(g)) for a finite g > 0, searched from k
RECURSIVE FloorLog10(_, _)
FloorLog10(g, k) ==
    IF QLt(g, Pow10(k)) THEN FloorLog10(g, k - 1)
    ELSE IF QGe(g, Pow10(k + 1)) THEN FloorLog10(g, k + 1)
    ELSE k

\* const targetTimeGap = CONFIG.TIMELINE.MIN_TICK_GAP * timePerPixel
TargetTimeGap(scale) == QMul(QInt(MIN_TICK_GAP), QDiv(QInt(1), scale))

\* const pow = Math.pow(10, Math.floor(Math.log10(targetTimeGap))): NaN for
\* a negative or NaN gap, 0 for the gap 0, Infinity for an infinite gap
TickPow(targetTimeGap) ==
    IF IsNaN(targetTimeGap) \/ QLt(targetTimeGap, QInt(0)) THEN QNaN
    ELSE IF targetTimeGap = QInt(0) THEN QInt(0)
    ELSE IF ~IsFinite(targetTimeGap) THEN targetTimeGap
    ELSE Pow10(FloorLog10(targetTimeGap, 0))

\* let step = pow; if (targetTimeGap / pow > 5) { step = 5 * pow; } else if ...
TickStep(scale) ==
    LET targetTimeGap == TargetTimeGap(scale)
        pow == TickPow(targetTimeGap)
        ratio == QDiv(targetTimeGap, pow)
    IN  IF QGt(ratio, QInt(5)) THEN QMul(QInt(5), pow)
        ELSE IF QGt(ratio, Q(5, 2)) THEN QMul(Q(5, 2), pow)
        ELSE IF QGt(ratio, QInt(2)) THEN QMul(QInt(2), pow)
        ELSE pow

\* renderTimeline(): the ruler as one drawing step, with its tick step
renderTimeline(v) == <<[step |-> "ruler", tick |-> TickStep(v.scale)]>>

\* a render that draws the ruler before the threads
renderSteps_RulerFirst(ths, v, cv) ==
    <<[step |-> "clear"]>> \o renderTimeline(v) \o RenderFrom(ths, 1, v.y, v, cv)

\* render() on a canvas of size cv: its drawing steps in order
renderSteps(ths, v, cv) ==
    <<[step |-> "clear"]>> \o RenderFrom(ths, 1, v.y, v, cv) \o renderTimeline(v)

\* canvas.getBoundingClientRect(): the canvas fills the webview from its
\* top left corner
CanvasRect == [left |-> 0, top |-> 0]

(***************************************************************************)
(* Inputs of the engine.                                                   *)
(***************************************************************************)
XEvent(tid, name, ts, dur) ==
    [ph |-> "X", tid |-> tid, name |-> name, ts |-> ts, dur |-> dur]

BEvent(tid, name, ts) == [ph |-> "b", tid |-> tid, name |-> name, ts |-> ts]

EEvent(tid, name, ts) == [ph |-> "e", tid |-> tid, name |-> name, ts |-> ts]

WithDetail(e, detail) ==
    [f \in DOMAIN e \cup {"detail"} |-> IF f = "detail" THEN detail ELSE e[f]]

\* { traceEvents: [] }
EmptyData == [traceEvents |-> <<>>]

\* one complete event without duration at time 0: a layout of zero extent
ZeroData == [traceEvents |-> << [ph |-> "X", tid |-> NumTid(1), name |-> "F", ts |-> 0] >>]

\* args.detail of a file with a location: "C:/a.h:3:1"
FileDetail == <<"C", ":", "/", "a", ".", "h", ":", "3", ":", "1">>

\* A(0, 100) with a detail string, containing B(10, 20) without one
NestedData ==
    [traceEvents |->
        << WithDetail(XEvent(NumTid(1), "A", 0, 100), FileDetail),
           XEvent(NumTid(1), "B", 10, 20) >>]

Datasets == {EmptyData, ZeroData, NestedData}

WithCat(e, cat) == [f \in DOMAIN e \cup {"cat"} |-> IF f = "cat" THEN cat ELSE e[f]]

\* two threads, the first with an event of category "Source" and one of
\* another category, the second with one event
LaneData ==
    [traceEvents |->
        << WithCat(XEvent(NumTid(1), "S", 0, 50), "Source"),
           WithCat(XEvent(NumTid(1), "A", 0, 100), "Frontend"),
           XEvent(NumTid(2), "B", 20, 40) >>]

\* window.innerWidth, window.innerHeight, documentElement.clientWidth
WindowSizes ==
    { [innerWidth |-> 300, innerHeight |-> 150, clientWidth |-> 0],
      [innerWidth |-> 480, innerHeight |-> 300, clientWidth |-> 465] }

\* clientX, clientY of the pointer events: on a bar, and on the ruler right
\* of the bars
Pointers == {<<80, 110>>, <<280, 30>>}

\* clientX of the wheel events
PointerXs == {p[1] : p \in Pointers}

\* e.deltaY of the wheel events
WheelDeltas == {-100, 100}

\* the size of a canvas element nothing has been assigned to
DefaultCanvas == [width |-> 300, height |-> 150]

\* acquireVsCodeApi is defined in a webview
HasVsCode == TRUE

(***************************************************************************)
(* Initial state: the module-level declarations of canvas.ts, beside an    *)
(* extension host whose CompilationDatabase was constructed without a      *)
(* workspace folder (it then neither watches nor loads anything).          *)
(***************************************************************************)
\* new CompilationDatabase(outputChannel) when workspaceFolders is empty
\* (loadingPromise is the index in loads of the call whose promise it
\* holds, clearedAt the number of calls started when the delete handler last
\* cleared commands; both are 0 when there is none)
NoDatabase ==
    /\ dbFile = Null
    /\ commands = {}
    /\ loads = <<>>
    /\ loadingPromise = 0
    /\ clearedAt = 0

InitEngine ==
    /\ source = "none"
    /\ threads = <<>>
    /\ maxTraceTime = 0
    /\ totalContentHeight = 0
    /\ selectedEvent = Null
    /\ rightClickedEvent = Null
    /\ view = [x |-> QInt(MARGIN_SIDE), y |-> 60, scale |-> Q(1, 10)]
    /\ viewFitted = TRUE
    /\ canvas = DefaultCanvas
    /\ frame = Null
    /\ isDragging = FALSE
    /\ lastMouse = [x |-> 0, y |-> 0]
    /\ tooltip = FALSE
    /\ contextMenu = FALSE
    /\ posted = <<>>
    /\ zooms = 0
    /\ ready = FALSE
    /\ gesture = Null

Init ==
    /\ data \in Datasets \cup {Null}
    /\ win \in WindowSizes
    /\ InitEngine
    /\ NoDatabase

\* render(): the canvas is resized to the window and the layout is drawn
\* with the view; src is where the layout came from, fitted whether the
\* view was reset for it
render(src, fitted) == [source |-> src, fitted |-> fitted]

\* The event objects of a layout are allocated by preprocess. The objects
\* of the current layout carry the epoch "current" in their id; a reference
\* to an object of a replaced layout is written with the epoch "outdated".
CurrentEpoch == "current"

Outdated(ref) == IF ref = Null THEN Null ELSE [ref EXCEPT !.id = <<"outdated", @[2]>>]

\* if (maxTraceTime <= 0) { return; } of resetView
\* an early return for negative extents only
ResetSkipped_Negative(mtt) == mtt < 0

ResetSkipped(mtt) == mtt <= 0

\* preprocess(d); resetView(); src tells the initial load from an update
LoadData(d, src) ==
    LET p == preprocess(d, maxTraceTime, CurrentEpoch)
        cv == FitCanvas(win)
    IN  /\ data' = d
        /\ source' = src
        /\ threads' = p.threads
        /\ maxTraceTime' = p.maxTraceTime
        /\ totalContentHeight' = p.totalContentHeight
        /\ selectedEvent' = Outdated(selectedEvent)
        /\ rightClickedEvent' = Outdated(rightClickedEvent)
        /\ IF ResetSkipped(p.maxTraceTime)
           THEN /\ viewFitted' = FALSE
                /\ UNCHANGED <<view, canvas, frame, zooms>>
           ELSE /\ canvas' = cv
                /\ view' = clampView(ResetValue(cv, p.maxTraceTime), cv,
                                     p.maxTraceTime, p.totalContentHeight)
                /\ viewFitted' = TRUE
                /\ zooms' = 0
                /\ frame' = render(src, TRUE)

\* const globalData = window.initialData; if (globalData) {...}
Startup ==
    /\ ~ready
    /\ ready' = TRUE
    /\ posted' = <<>>
    /\ UNCHANGED <<win, isDragging, lastMouse, tooltip, contextMenu>>
    /\ IF data # Null
       THEN LoadData(data, "initial")
       ELSE UNCHANGED <<data, source, threads, maxTraceTime, totalContentHeight,
                        selectedEvent, rightClickedEvent, view, viewFitted,
                        canvas, frame, zooms>>

\* window 'message' listener; a message without data or with another
\* command is ignored
OnMessage(message) ==
    /\ ready
    /\ posted' = <<>>
    /\ UNCHANGED <<ready, win, isDragging, lastMouse, tooltip, contextMenu>>
    /\ IF message.command = "update" /\ message.data # Null
       THEN LoadData(message.data, "update")
       ELSE UNCHANGED <<data, source, threads, maxTraceTime, totalContentHeight,
                        selectedEvent, rightClickedEvent, view, viewFitted,
                        canvas, frame, zooms>>

Messages ==
    {[command |-> "update", data |-> d] : d \in Datasets \cup {Null}}
        \cup {[command |-> "other", data |-> Null]}

(***************************************************************************)
(* Pointer, wheel and resize listeners.                                    *)
(***************************************************************************)
\* a mousedown listener that does not look at the button
MouseDown_AnyButton(button, clientX, clientY) ==
    /\ ready
    /\ posted' = <<>>
    /\ UNCHANGED <<ready, data, source, threads, maxTraceTime,
                   totalContentHeight, selectedEvent, rightClickedEvent,
                   view, viewFitted, canvas, win, frame, tooltip, contextMenu, zooms>>
    /\ isDragging' = TRUE
    /\ lastMouse' = [x |-> clientX, y |-> clientY]

\* canvas 'mousedown' listener
MouseDown(button, clientX, clientY) ==
    /\ ready
    /\ posted' = <<>>
    /\ UNCHANGED <<ready, data, source, threads, maxTraceTime,
                   totalContentHeight, selectedEvent, rightClickedEvent,
                   view, viewFitted, canvas, win, frame, tooltip, contextMenu, zooms>>
    /\ IF button = 0
       THEN /\ isDragging' = TRUE
            /\ lastMouse' = [x |-> clientX, y |-> clientY]
       ELSE UNCHANGED <<isDragging, lastMouse>>

\* an updateTooltip that does not look at the context menu
updateTooltip_IgnoreMenu(clientX, clientY) ==
    LET mouseX == clientX - CanvasRect.left
        mouseY == clientY - CanvasRect.top
    IN  IF mouseY < TIMELINE_HEIGHT THEN FALSE
        ELSE getEventAtPosition(threads, view, mouseX, mouseY) # Null

\* updateTooltip(e): the new visibility of the tooltip
updateTooltip(clientX, clientY) ==
    LET mouseX == clientX - CanvasRect.left
        mouseY == clientY - CanvasRect.top
    IN  IF contextMenu THEN FALSE
        ELSE IF mouseY < TIMELINE_HEIGHT THEN FALSE
        ELSE getEventAtPosition(threads, view, mouseX, mouseY) # Null

\* window 'mousemove' listener
MouseMove(clientX, clientY) ==
    /\ ready
    /\ posted' = <<>>
    /\ UNCHANGED <<ready, data, source, threads, maxTraceTime,
                   totalContentHeight, selectedEvent, rightClickedEvent,
                   viewFitted, win, isDragging, contextMenu, zooms>>
    /\ IF isDragging
       THEN /\ UNCHANGED tooltip
            /\ lastMouse' = [x |-> clientX, y |-> clientY]
            /\ view' = clampView(PanView(view, clientX, clientY, lastMouse),
                                 canvas, maxTraceTime, totalContentHeight)
            /\ canvas' = FitCanvas(win)
            /\ frame' = render(source, viewFitted)
       ELSE /\ tooltip' = updateTooltip(clientX, clientY)
            /\ UNCHANGED <<view, lastMouse, canvas, frame>>

\* window 'mouseup' listener
MouseUp ==
    /\ ready
    /\ posted' = <<>>
    /\ UNCHANGED <<ready, data, source, threads, maxTraceTime,
                   totalContentHeight, selectedEvent, rightClickedEvent,
                   view, viewFitted, canvas, win, frame, lastMouse, tooltip,
                   contextMenu, zooms>>
    /\ isDragging' = FALSE

\* a click listener that keeps the selection when no bar is hit
Click_KeepOnMiss(clientX, clientY) ==
    LET ev == getEventAtPosition(threads, view, clientX - CanvasRect.left,
                                 clientY - CanvasRect.top)
    IN  /\ ready
        /\ UNCHANGED ready
        /\ posted' = <<>>
        /\ IF ev # Null /\ ev # selectedEvent
           THEN /\ selectedEvent' = ev
                /\ canvas' = FitCanvas(win)
                /\ frame' = render(source, viewFitted)
           ELSE UNCHANGED <<selectedEvent, canvas, frame>>
        /\ contextMenu' = FALSE
        /\ UNCHANGED <<data, source, threads, maxTraceTime, totalContentHeight,
                       rightClickedEvent, view, viewFitted, win, isDragging,
                       lastMouse, tooltip, zooms>>

\* canvas 'click' listener, then the window 'click' listener the event
\* bubbles to
Click(clientX, clientY) ==
    LET ev == getEventAtPosition(threads, view, clientX - CanvasRect.left,
                                 clientY - CanvasRect.top)
    IN  /\ ready
        /\ UNCHANGED ready
        /\ posted' = <<>>
        /\ IF ev # selectedEvent
           THEN /\ selectedEvent' = ev
                /\ canvas' = FitCanvas(win)
                /\ frame' = render(source, viewFitted)
           ELSE UNCHANGED <<selectedEvent, canvas, frame>>
        /\ contextMenu' = FALSE
        /\ UNCHANGED <<data, source, threads, maxTraceTime, totalContentHeight,
                       rightClickedEvent, view, viewFitted, win, isDragging,
                       lastMouse, tooltip, zooms>>

\* vscode.postMessage(msg), sent being what the listener has posted so far
postMessage(sent, msg) == Append(sent, msg)

\* a dblclick listener that does not look at the detail string
DblClick_AnyHit(clientX, clientY) ==
    LET ev == getEventAtPosition(threads, view, clientX - CanvasRect.left,
                                 clientY - CanvasRect.top)
    IN  /\ ready
        /\ UNCHANGED ready
        /\ IF ev # Null /\ HasVsCode
           THEN posted' = postMessage(<<>>, [command |-> "openFile", path |-> ev.detail])
           ELSE posted' = <<>>
        /\ UNCHANGED <<data, source, threads, maxTraceTime, totalContentHeight,
                       selectedEvent, rightClickedEvent, view, viewFitted, canvas,
                       win, frame, isDragging, lastMouse, tooltip, contextMenu,
                       zooms>>

\* canvas 'dblclick' listener
DblClick(clientX, clientY) ==
    LET ev == getEventAtPosition(threads, view, clientX - CanvasRect.left,
                                 clientY - CanvasRect.top)
    IN  /\ ready
        /\ UNCHANGED ready
        /\ IF ev # Null /\ ev.detail # <<>> /\ HasVsCode
           THEN posted' = postMessage(<<>>, [command |-> "openFile", path |-> ev.detail])
           ELSE posted' = <<>>
        /\ UNCHANGED <<data, source, threads, maxTraceTime, totalContentHeight,
                       selectedEvent, rightClickedEvent, view, viewFitted, canvas,
                       win, frame, isDragging, lastMouse, tooltip, contextMenu,
                       zooms>>

\* a contextmenu listener that assigns the selection on a miss too
ContextMenu_SelectAlways(clientX, clientY) ==
    LET ev == getEventAtPosition(threads, view, clientX - CanvasRect.left,
                                 clientY - CanvasRect.top)
    IN  /\ ready
        /\ UNCHANGED ready
        /\ posted' = <<>>
        /\ rightClickedEvent' = ev
        /\ selectedEvent' = ev
        /\ IF ev # Null
           THEN /\ canvas' = FitCanvas(win)
                /\ frame' = render(source, viewFitted)
                /\ tooltip' = FALSE
                /\ contextMenu' = TRUE
           ELSE /\ contextMenu' = FALSE
                /\ UNCHANGED <<canvas, frame, tooltip>>
        /\ UNCHANGED <<data, source, threads, maxTraceTime, totalContentHeight,
                       view, viewFitted, win, isDragging, lastMouse, zooms>>

\* canvas 'contextmenu' listener
ContextMenu(clientX, clientY) ==
    LET ev == getEventAtPosition(threads, view, clientX - CanvasRect.left,
                                 clientY - CanvasRect.top)
    IN  /\ ready
        /\ UNCHANGED ready
        /\ posted' = <<>>
        /\ rightClickedEvent' = ev
        /\ IF ev # Null
           THEN /\ selectedEvent' = ev
                /\ canvas' = FitCanvas(win)
                /\ frame' = render(source, viewFitted)
                /\ tooltip' = FALSE
                /\ contextMenu' = TRUE
           ELSE /\ contextMenu' = FALSE
                /\ UNCHANGED <<selectedEvent, canvas, frame, tooltip>>
        /\ UNCHANGED <<data, source, threads, maxTraceTime, totalContentHeight,
                       view, viewFitted, win, isDragging, lastMouse, zooms>>

\* canvas 'wheel' listener
Wheel(clientX, deltaY) ==
    /\ ready
    /\ posted' = <<>>
    /\ UNCHANGED <<ready, data, source, threads, maxTraceTime,
                   totalContentHeight, selectedEvent, rightClickedEvent,
                   viewFitted, win, isDragging, lastMouse, tooltip, contextMenu>>
    /\ zooms < MaxZooms
    /\ zooms' = zooms + 1
    /\ view' = clampView(ZoomView(view, clientX, deltaY, canvas, maxTraceTime),
                         canvas, maxTraceTime, totalContentHeight)
    /\ canvas' = FitCanvas(win)
    /\ frame' = render(source, viewFitted)

\* menu listeners that do not look at the detail string
MenuClick_AnyDetail(command) ==
    /\ ready
    /\ UNCHANGED <<ready, data, source, threads, maxTraceTime,
                   totalContentHeight, selectedEvent, rightClickedEvent,
                   view, viewFitted, canvas, win, frame, isDragging, lastMouse,
                   tooltip, zooms>>
    /\ contextMenu
    /\ IF rightClickedEvent # Null /\ HasVsCode
       THEN posted' = postMessage(<<>>, [command |-> command,
                                             path |-> rightClickedEvent.detail])
       ELSE posted' = <<>>
    /\ contextMenu' = FALSE

\* 'menu-open-file' and 'menu-copy-path' click listeners, then the window
\* 'click' listener the event bubbles to
MenuClick(command) ==
    /\ ready
    /\ UNCHANGED <<ready, data, source, threads, maxTraceTime,
                   totalContentHeight, selectedEvent, rightClickedEvent,
                   view, viewFitted, canvas, win, frame, isDragging, lastMouse,
                   tooltip, zooms>>
    /\ contextMenu
    /\ IF rightClickedEvent # Null /\ rightClickedEvent.detail # <<>> /\ HasVsCode
       THEN posted' = postMessage(<<>>, [command |-> command,
                                             path |-> rightClickedEvent.detail])
       ELSE posted' = <<>>
    /\ contextMenu' = FALSE

\* canvas.width = window.innerWidth; canvas.height = window.innerHeight;
ResizedCanvas(w) == [width |-> w.innerWidth, height |-> w.innerHeight]

\* window 'resize' listener: the window has taken the size w
Resize(w) ==
    LET cv == ResizedCanvas(w)
    IN  /\ ready
        /\ UNCHANGED ready
        /\ posted' = <<>>
        /\ win' = w
        /\ view' = clampView(view, cv, maxTraceTime, totalContentHeight)
        /\ canvas' = FitCanvas(w)
        /\ frame' = render(source, viewFitted)
        /\ UNCHANGED <<data, source, threads, maxTraceTime, totalContentHeight,
                       selectedEvent, rightClickedEvent, viewFitted, isDragging,
                       lastMouse, tooltip, contextMenu, zooms>>

\* The events arrive in any order; the presses of the primary button are
\* not followed here (gesture stays as it is).
Next ==
    \/ Startup /\ UNCHANGED <<gesture, host>>
    \/ \E m \in Messages : OnMessage(m) /\ UNCHANGED <<gesture, host>>
    \/ \E b \in {0, 2}, p \in Pointers : MouseDown(b, p[1], p[2]) /\ UNCHANGED <<gesture, host>>
    \/ \E p \in Pointers : MouseMove(p[1], p[2]) /\ UNCHANGED <<gesture, host>>
    \/ MouseUp /\ UNCHANGED <<gesture, host>>
    \/ \E p \in Pointers : Click(p[1], p[2]) /\ UNCHANGED <<gesture, host>>
    \/ \E p \in Pointers : DblClick(p[1], p[2]) /\ UNCHANGED <<gesture, host>>
    \/ \E p \in Pointers : ContextMenu(p[1], p[2]) /\ UNCHANGED <<gesture, host>>
    \/ \E x \in PointerXs, dy \in WheelDeltas : Wheel(x, dy) /\ UNCHANGED <<gesture, host>>
    \/ \E c \in {"openFile", "copyPath"} : MenuClick(c) /\ UNCHANGED <<gesture, host>>
    \/ \E w \in WindowSizes : Resize(w) /\ UNCHANGED <<gesture, host>>

Spec == Init /\ [][Next]_vars

(***************************************************************************)
(* Ingestion as a function of its input: the script starts with            *)
(* window.initialData drawn from a bounded set of datasets.                *)
(***************************************************************************)
\* all sequences over pool of length at most n
RECURSIVE SeqsUpTo(_, _)
SeqsUpTo(pool, n) ==
    IF n = 0 THEN {<<>>}
    ELSE LET shorter == SeqsUpTo(pool, n - 1)
         IN  shorter \cup {Append(q, e) : q \in {r \in shorter : Len(r) = n - 1}, e \in pool}

\* complete events and begin/end halves of one thread, one name, one lane
DepthPool ==
    {XEvent(NumTid(1), "F", ts, dur) : ts \in 0..MaxTs, dur \in 0..MaxTs}
        \cup {BEvent(NumTid(1), "F", ts) : ts \in 0..MaxTs}
        \cup {EEvent(NumTid(1), "F", ts) : ts \in 0..MaxTs}

DepthWindow == [innerWidth |-> 300, innerHeight |-> 150, clientWidth |-> 0]

InitDepth ==
    /\ data \in {[traceEvents |-> q] :
                    q \in SeqsUpTo({e \in DepthPool : e.ts + DurOrZero(e) <= MaxTs}, MaxEvents)}
    /\ win = DepthWindow
    /\ InitEngine
    /\ NoDatabase

\* the script runs once on its initial data
NextIngest == Startup /\ UNCHANGED <<gesture, host>>

SpecDepth == InitDepth /\ [][NextIngest]_vars

\* begin/end halves over thread ids and names, two of which give the same
\* key, an event without thread id and an event of another phase
PairKeys ==
    { <<NumTid(1), "F">>, <<NumTid(2), "F">>, <<NumTid(1), "F-F">>, <<StrTid("1-F"), "F">> }

PairPool ==
    {BEvent(k[1], k[2], ts) : k \in PairKeys, ts \in 1..MaxPairTs}
        \cup {EEvent(k[1], k[2], ts) : k \in PairKeys, ts \in 1..MaxPairTs}
        \cup {[ph |-> "e", name |-> "F", ts |-> MaxPairTs],
              [ph |-> "i", tid |-> NumTid(1), name |-> "F", ts |-> MaxPairTs]}

InitPair ==
    /\ data \in {[traceEvents |-> q] : q \in SeqsUpTo(PairPool, MaxPairEvents)}
    /\ win = DepthWindow
    /\ InitEngine
    /\ NoDatabase

SpecPair == InitPair /\ [][NextIngest]_vars

(***************************************************************************)
(* C1 - containment tree of the depths.                                    *)
(***************************************************************************)
\* the event lists of all threads, lane by lane
Lanes == {threads[i].sourceEvents : i \in 1..Len(threads)}
            \cup {threads[i].mainEvents : i \in 1..Len(threads)}

\* a fully contains b
Contains(a, b) == a.start <= b.start /\ b.end <= a.end

Disjoint(a, b) == a.end <= b.start \/ b.end <= a.start

\* the intervals of lane evs are pairwise nested or disjoint
WellNested(evs) ==
    /\ \A i \in 1..Len(evs) : evs[i].dur >= 0
    /\ \A i, j \in 1..Len(evs) :
          i # j => Contains(evs[i], evs[j]) \/ Contains(evs[j], evs[i])
                      \/ Disjoint(evs[i], evs[j])

\* the other events of the lane that contain event i
Containers(evs, i) == {j \in 1..Len(evs) : j # i /\ Contains(evs[j], evs[i])}

\* the innermost of them: those every other container contains
Innermost(evs, i) ==
    {p \in Containers(evs, i) : \A c \in Containers(evs, i) : Contains(evs[c], evs[p])}

\* depth 0 exactly without container, depth d + 1 exactly under an
\* innermost container of depth d
ContainmentTree(evs) ==
    \A i \in 1..Len(evs) :
        /\ (evs[i].depth = 0) <=> (Containers(evs, i) = {})
        /\ \A d \in 0..Len(evs) :
              (evs[i].depth = d + 1) <=>
                  (Containers(evs, i) # {} /\
                   \A p \in Innermost(evs, i) : evs[p].depth = d)

\* C1 as claimed: in every lane whose intervals are pairwise nested or
\* disjoint the depths form the containment tree
C1_AsClaimed == ready => \A evs \in Lanes : WellNested(evs) => ContainmentTree(evs)

\* no two events of the lane have the same interval, and no event of zero
\* duration lies exactly at the end of another event
Separated(evs) ==
    \A i, j \in 1..Len(evs) :
        i # j => /\ ~(evs[i].start = evs[j].start /\ evs[i].end = evs[j].end)
                 /\ ~(evs[i].dur = 0 /\ evs[i].start = evs[j].end)

\* C1 amended: in every lane whose intervals are pairwise nested or
\* disjoint, pairwise different, and without a zero-duration event at the
\* end of another event, the depths form the containment tree
C1_ContainmentTree ==
    ready => \A evs \in Lanes : (WellNested(evs) /\ Separated(evs)) => ContainmentTree(evs)

\* a lane of three separated, well nested events that reaches depth 2
C1_Witness ==
    /\ ready
    /\ \E evs \in Lanes :
          /\ Len(evs) = 3
          /\ WellNested(evs) /\ Separated(evs)
          /\ \E i \in 1..3 : evs[i].depth = 2

(***************************************************************************)
(* C8, C9 - pairing of begin and end events.                               *)
(***************************************************************************)
HasTid(e) == "tid" \in DOMAIN e

\* the same thread id and the same name
SameThreadAndName(a, b) == a.tid = b.tid /\ a.name = b.name

\* the begin event (its index, 0 for none) that end event j is to be paired
\* with: the most recent begin of the same thread id and name before j that
\* no earlier end event was paired with
RECURSIVE MatchOf(_, _)
MatchOf(events, j) ==
    LET open == {i \in 1..(j - 1) :
                    /\ events[i].ph = "b" /\ HasTid(events[i])
                    /\ SameThreadAndName(events[i], events[j])
                    /\ \A m \in (i + 1)..(j - 1) :
                          ~(events[m].ph = "e" /\ HasTid(events[m])
                              /\ MatchOf(events, m) = i)}
    IN  IF open = {} THEN 0 ELSE CHOOSE i \in open : \A o \in open : o <= i

\* the raw events that are to emit a ProcessedEvent
Emitting(events) ==
    {j \in 1..Len(events) :
        HasTid(events[j]) /\
        \/ events[j].ph = "X"
        \/ events[j].ph = "e" /\ MatchOf(events, j) # 0}

\* all ProcessedEvents of the layout
AllProcessed == UNION {{evs[i] : i \in 1..Len(evs)} : evs \in Lanes}

\* C8: every end event with an open begin of its thread id and name emits
\* exactly one ProcessedEvent, from that begin's timestamp to its own, and
\* nothing else emits one (a begin alone emits nothing)
C8_LifoPairing ==
    ready =>
        LET events == TraceEvents(data)
        IN  /\ Cardinality(AllProcessed) = Cardinality(Emitting(events))
            /\ \A j \in Emitting(events) :
                  events[j].ph = "e" =>
                      LET b == events[MatchOf(events, j)]
                          k == Cardinality({m \in Emitting(events) : m <= j})
                      IN  \E ev \in AllProcessed :
                              /\ ev.id = <<CurrentEpoch, k>>
                              /\ ev.start = b.ts
                              /\ ev.end = events[j].ts
                              /\ ev.dur = events[j].ts - b.ts

\* the events the claim says are dropped: no thread id, an end without open
\* begin of its thread id and name, any other phase
Dropped(events, n) ==
    \/ ~HasTid(events[n])
    \/ events[n].ph = "e" /\ MatchOf(events, n) = 0
    \/ events[n].ph \notin {"X", "b", "e"}

\* the ProcessedEvents a state of the ingestion loop holds
Made(st) ==
    UNION {{st.threadMap[i].sources[k] : k \in 1..Len(st.threadMap[i].sources)}
              \cup {st.threadMap[i].main[k] : k \in 1..Len(st.threadMap[i].main)}
           : i \in 1..Len(st.threadMap)}

\* the open begin events a state of the ingestion loop holds
OpenBegins(st) == {<<k, st.openEvents[k]>> : k \in {c \in DOMAIN st.openEvents : st.openEvents[c] # <<>>}}

\* C9: a dropped event adds no ProcessedEvent and leaves the open begins
\* and maxTraceTime as they were
C9_SilentDrop ==
    ready =>
        LET events == TraceEvents(data)
        IN  \A n \in 1..Len(events) :
                Dropped(events, n) =>
                    LET before == IngestPrefix(events, n - 1, 0, CurrentEpoch)
                        after == IngestPrefix(events, n, 0, CurrentEpoch)
                    IN  /\ Made(after) = Made(before)
                        /\ OpenBegins(after) = OpenBegins(before)
                        /\ after.maxTraceTime = before.maxTraceTime

(***************************************************************************)
(* C2, C3, C10 - the 'update' message replaces the dataset.                *)
(***************************************************************************)
\* C2 as claimed: once an update has been processed, selectedEvent and
\* rightClickedEvent are null or events of the current layout
C2_AsClaimed ==
    (ready /\ source = "update") =>
        /\ selectedEvent \in {Null} \cup AllProcessed
        /\ rightClickedEvent \in {Null} \cup AllProcessed

\* C3 as claimed: a frame that shows the layout of an update was drawn with
\* a view that resetView fitted to that layout
C3_AsClaimed ==
    (frame # Null /\ frame.source = "update") => frame.fitted

\* C10: whatever happened before, the threads, lane orders, depths, max
\* depths, maxTraceTime and total height are those preprocess builds for
\* the current dataset from the initial state
C10_HistoryIndependent ==
    (ready /\ data # Null) =>
        LET fresh == preprocess(data, 0, CurrentEpoch)
        IN  /\ threads = fresh.threads
            /\ maxTraceTime = fresh.maxTraceTime
            /\ totalContentHeight = fresh.totalContentHeight

\* an update was ingested while an event of the replaced layout was still
\* selected, and the view of the new layout has been zoomed
C10_Witness ==
    /\ ready /\ source = "update" /\ zooms > 0
    /\ threads # <<>>
    /\ selectedEvent # Null /\ selectedEvent.id[1] = "outdated"

(***************************************************************************)
(* C4 - C7 - zoom and clamping.                                            *)
(***************************************************************************)
\* equality of two numbers (NaN equals nothing)
QEq(a, b) == ~IsNaN(a) /\ ~IsNaN(b) /\ a = b

\* the time value under pixel column clientX
TimeUnder(clientX, v) == QDiv(QSub(QInt(clientX), v.x), v.scale)

\* C4 as claimed: a wheel zoom over a non-empty dataset, its final clamp
\* included, keeps the time value under the cursor
C4_AsClaimed ==
    [][\A x \in PointerXs, dy \in WheelDeltas :
          (Wheel(x, dy) /\ threads # <<>>) =>
              QEq(TimeUnder(x, view'), TimeUnder(x, view))]_vars

\* C4 amended: a wheel zoom over a dataset of positive time extent, from a
\* finite positive scale, keeps the time value under the cursor whenever
\* its final clamp leaves x as the zoom computed it
C4_ZoomKeepsCursorTime ==
    [][\A x \in PointerXs, dy \in WheelDeltas :
          (/\ Wheel(x, dy)
           /\ maxTraceTime > 0
           /\ IsFinite(view.scale) /\ QGt(view.scale, QInt(0))
           /\ view'.x = ZoomView(view, x, dy, canvas, maxTraceTime).x) =>
              QEq(TimeUnder(x, view'), TimeUnder(x, view))]_vars

\* a zoom has changed the scale and moved x off the margin, and the column
\* that was under the cursor at time 40/scale is still there
C4_Witness ==
    /\ ready /\ zooms > 0 /\ maxTraceTime > 0
    /\ view.scale # FitScale(canvas, maxTraceTime)
    /\ QLt(view.x, QInt(MARGIN_SIDE))
    /\ QGt(view.x, QSub(QSub(QInt(canvas.width), QMul(QInt(maxTraceTime), view.scale)),
                        QInt(MARGIN_SIDE)))

\* what C5 says of x after clampView ran with canvas width cw
ClampedX(v, cw, mtt) ==
    LET drawableWidth == QInt(cw - (2 * MARGIN_SIDE))
        contentWidth == QMul(QInt(mtt), v.scale)
    IN  IF QGt(contentWidth, drawableWidth)
        THEN /\ QLe(QSub(QSub(drawableWidth, contentWidth), QInt(MARGIN_SIDE)), v.x)
             /\ QLe(v.x, QInt(MARGIN_SIDE))
        ELSE v.x = QInt(MARGIN_SIDE)

\* what C6 says of y after clampView ran with canvas height ch
ClampedY(v, ch, tch) ==
    IF tch <= ch - (TIMELINE_HEIGHT + 10)
    THEN v.y = TIMELINE_HEIGHT + 10
    ELSE v.y <= TIMELINE_HEIGHT + 10 /\ v.y + tch >= ch - 40

\* the step is a mousemove while dragging
PanStep == isDragging /\ \E p \in Pointers : MouseMove(p[1], p[2])

\* the step is a wheel event
WheelStep == \E x \in PointerXs, dy \in WheelDeltas : Wheel(x, dy)

\* the step is preprocess followed by a resetView that was not skipped
ResetStep ==
    /\ ~ResetSkipped(maxTraceTime')
    /\ \/ Startup /\ data # Null
       \/ \E d \in Datasets : OnMessage([command |-> "update", data |-> d])

\* C5: after clampView x lies in [drawableWidth - contentWidth - margin,
\* margin] when the content is wider than the drawable width, and is the
\* margin otherwise
C5_ClampX ==
    [][/\ ResetStep => ClampedX(view', canvas'.width, maxTraceTime')
       /\ (PanStep \/ WheelStep) => ClampedX(view', canvas.width, maxTraceTime)
       /\ Resize(win') => ClampedX(view', win'.innerWidth, maxTraceTime)]_vars

\* clampView has held x at the left end of its range
C5_Witness ==
    /\ ready /\ maxTraceTime > 0 /\ zooms > 0
    /\ QGt(QMul(QInt(maxTraceTime), view.scale), QInt(canvas.width - (2 * MARGIN_SIDE)))
    /\ view.x = QSub(QSub(QInt(canvas.width), QMul(QInt(maxTraceTime), view.scale)),
                     QInt(MARGIN_SIDE))

\* C6: after clampView y is the top offset when the content fits below it,
\* and otherwise at most the top offset with the content bottom not above
\* the bottom margin
C6_ClampY ==
    [][/\ ResetStep => ClampedY(view', canvas'.height, totalContentHeight')
       /\ (PanStep \/ WheelStep) => ClampedY(view', canvas.height, totalContentHeight)
       /\ Resize(win') => ClampedY(view', win'.innerHeight, totalContentHeight)]_vars

\* the content does not fit and has been scrolled up to the bottom stop
C6_Witness ==
    /\ ready
    /\ totalContentHeight > canvas.height - (TIMELINE_HEIGHT + 10)
    /\ view.y = canvas.height - totalContentHeight - 40
    /\ view.y < TIMELINE_HEIGHT + 10

HitPointers ==
    {<<40, 120>>, <<41, 120>>, <<80, 110>>, <<80, 135>>, <<280, 110>>, <<80, 30>>}

InitHit ==
    /\ data \in Datasets
    /\ win \in WindowSizes
    /\ InitEngine
    /\ NoDatabase

NextHit ==
    \/ Startup /\ UNCHANGED <<gesture, host>>
    \/ \E p \in HitPointers : MouseMove(p[1], p[2]) /\ UNCHANGED <<gesture, host>>
    \/ \E p \in HitPointers : Click(p[1], p[2]) /\ UNCHANGED <<gesture, host>>
    \/ \E p \in HitPointers : DblClick(p[1], p[2]) /\ UNCHANGED <<gesture, host>>
    \/ \E p \in HitPointers : ContextMenu(p[1], p[2]) /\ UNCHANGED <<gesture, host>>
    \/ \E c \in {"openFile", "copyPath"} : MenuClick(c) /\ UNCHANGED <<gesture, host>>
    \/ \E w \in WindowSizes : Resize(w) /\ UNCHANGED <<gesture, host>>

SpecHit == InitHit /\ [][NextHit]_vars

(***************************************************************************)
(* C11 - hit testing against the drawn bars.                               *)
(***************************************************************************)
\* the pointer lies inside the rectangle render() draws for event ev
InsideDrawnBar(ev, mx, my) ==
    \E b \in DrawnBars(threads, view, FitCanvas(win)) :
        /\ b.ev = ev
        /\ QLe(b.x, QInt(mx)) /\ QLe(QInt(mx), QAdd(b.x, b.rectW))
        /\ b.y <= my /\ my <= b.y + b.rectH

\* C11: the event a click selects by hit testing has the pointer inside
\* the rectangle the renderer draws for it
C11_HitInsideBar ==
    [][\A p \in HitPointers :
          (Click(p[1], p[2]) /\ selectedEvent' # Null) =>
              InsideDrawnBar(selectedEvent', p[1] - CanvasRect.left,
                             p[2] - CanvasRect.top)]_vars

(***************************************************************************)
(* C12 - the paths of the context menu requests.                           *)
(***************************************************************************)
\* message.path.search(/:|<| /): index of the first ':', '<' or ' ', -1 for none
SearchCut(path) ==
    LET cuts == {i \in 1..Len(path) : path[i] \in {":", "<", " "}}
    IN  IF cuts = {} THEN -1 ELSE (CHOOSE i \in cuts : \A j \in cuts : i <= j) - 1

\* String.prototype.trim() for the space character
RECURSIVE Trim(_)
Trim(str) ==
    IF str = <<>> THEN str
    ELSE IF Head(str) = " " THEN Trim(Tail(str))
    ELSE IF str[Len(str)] = " " THEN Trim(SubSeq(str, 1, Len(str) - 1))
    ELSE str

\* the 'copyPath' case of the extension host: the text written to the clipboard
HostCopyPath(path) ==
    LET endIdx == SearchCut(path)
        cleanPath == IF endIdx # -1 THEN SubSeq(path, 1, endIdx) ELSE path
    IN  Trim(cleanPath)

Digits == {"0", "1", "2", "3", "4", "5", "6", "7", "8", "9"}

\* str without one trailing ':digits' group, str itself when it has none
RECURSIVE DigitsAtEnd(_)
DigitsAtEnd(str) ==
    IF str # <<>> /\ str[Len(str)] \in Digits
    THEN 1 + DigitsAtEnd(SubSeq(str, 1, Len(str) - 1))
    ELSE 0

StripGroup(str) ==
    LET k == DigitsAtEnd(str)
    IN  IF k > 0 /\ Len(str) > k /\ str[Len(str) - k] = ":"
        THEN SubSeq(str, 1, Len(str) - k - 1)
        ELSE str

\* str without a trailing '<...>' part
StripAngle(str) ==
    LET opens == {i \in 1..Len(str) : str[i] = "<"}
    IN  IF str # <<>> /\ str[Len(str)] = ">" /\ opens # {}
        THEN Trim(SubSeq(str, 1, (CHOOSE i \in opens : \A j \in opens : i <= j) - 1))
        ELSE str

\* the cleaned path: the detail without a trailing ':line[:col]' location
\* or '<...>' suffix
CleanedPath(detail) == StripGroup(StripGroup(StripAngle(detail)))

\* C12: a 'copyPath' request carries the cleaned path of the right-clicked
\* event's detail (or at least the host reduces what it carries to the
\* cleaned path), and an 'openFile' request carries the detail unchanged
C12_CopyPathCleaned ==
    [][/\ (MenuClick("copyPath") /\ posted' # <<>>) =>
              /\ posted'[1].command = "copyPath"
              /\ \/ posted'[1].path = CleanedPath(rightClickedEvent.detail)
                 \/ HostCopyPath(posted'[1].path) = CleanedPath(rightClickedEvent.detail)
       /\ (MenuClick("openFile") /\ posted' # <<>>) =>
              posted' = <<[command |-> "openFile", path |-> rightClickedEvent.detail]>>]_vars

(***************************************************************************)
(* C13, C19, C20 - double click, right click, click.                       *)
(***************************************************************************)
\* the event under the pointer
HitAt(p) == getEventAtPosition(threads, view, p[1] - CanvasRect.left, p[2] - CanvasRect.top)

\* C13: a double click posts exactly one 'openFile' request with the hit
\* event's detail when an event with a non-empty detail is hit, posts
\* nothing otherwise, and leaves the selection and the view as they were
C13_DblClickOpensFile ==
    [][\A p \in HitPointers :
          DblClick(p[1], p[2]) =>
              /\ IF HitAt(p) # Null /\ HitAt(p).detail # <<>>
                 THEN posted' = <<[command |-> "openFile", path |-> HitAt(p).detail]>>
                 ELSE posted' = <<>>
              /\ selectedEvent' = selectedEvent
              /\ rightClickedEvent' = rightClickedEvent
              /\ view' = view]_vars

\* a double click on a bar with a detail string has posted its request,
\* and the pointer positions of the grid also hit a bar without detail
C13_Witness ==
    /\ ready /\ rightClickedEvent = Null
    /\ posted = <<[command |-> "openFile", path |-> FileDetail]>>
    /\ \E p \in HitPointers : HitAt(p) # Null /\ HitAt(p).detail = <<>>

(***************************************************************************)
(* C14 - C16 - extent of the trace and resetView.                          *)
(***************************************************************************)
\* the step ingests the empty dataset: initial load or update
EmptyLoad ==
    \/ Startup /\ data = EmptyData
    \/ OnMessage([command |-> "update", data |-> EmptyData])

\* C14: ingestion of an empty dataset yields no thread and maxTraceTime 0,
\* and the resetView after it leaves the view (and the frame) as they were
C14_EmptyDataset ==
    [][EmptyLoad =>
          /\ threads' = <<>>
          /\ maxTraceTime' = 0
          /\ totalContentHeight' = 0
          /\ view' = view
          /\ frame' = frame]_vars

\* the empty dataset replaced a dataset whose fitted view is still there
C14_Witness ==
    /\ ready /\ source = "update" /\ data = EmptyData
    /\ threads = <<>> /\ maxTraceTime = 0
    /\ view.scale # Q(1, 10)

\* the largest end of the ProcessedEvents evs, 0 when there is none
MaxEnd(evs) ==
    IF evs = {} THEN 0 ELSE (CHOOSE ev \in evs : \A o \in evs : o.end <= ev.end).end

\* C15: after preprocess maxTraceTime is the largest end over all
\* ProcessedEvents of all threads and lanes, 0 without any; raw events that
\* produced no ProcessedEvent do not count
C15_MaxTraceTime == ready => maxTraceTime = MaxEnd(AllProcessed)

\* events were emitted, the last one does not end last, and a begin event
\* that was never paired lies beyond the extent
C15_Witness ==
    /\ ready /\ maxTraceTime > 0
    /\ \E ev \in AllProcessed : ev.end < maxTraceTime /\ ev.id[2] = Cardinality(AllProcessed)
    /\ \E i \in 1..Len(TraceEvents(data)) :
          TraceEvents(data)[i].ph = "b" /\ TraceEvents(data)[i].ts > maxTraceTime

\* C16: after a resetView that was not skipped, maxTraceTime * scale is the
\* canvas width minus the two side margins and x is the left margin
C16_ResetFits ==
    [][ResetStep =>
          /\ QMul(QInt(maxTraceTime'), view'.scale)
                 = QInt(canvas'.width - (2 * MARGIN_SIDE))
          /\ view'.x = QInt(MARGIN_SIDE)]_vars

\* an update was fitted to the client width while an event of the replaced
\* layout, selected before, is still held
C16_Witness ==
    /\ ready /\ source = "update" /\ maxTraceTime > 0
    /\ viewFitted /\ zooms = 0
    /\ canvas.width = 465
    /\ selectedEvent # Null /\ selectedEvent.id[1] = "outdated"
    /\ QMul(QInt(maxTraceTime), view.scale) = QInt(canvas.width - (2 * MARGIN_SIDE))
    /\ view.x = QInt(MARGIN_SIDE)

(***************************************************************************)
(* C17, C18 - depth as the number of open intervals.                       *)
(***************************************************************************)
\* the lane is ordered by start ascending, ties by duration descending
SortedLane(evs) ==
    \A i \in 1..(Len(evs) - 1) :
        \/ evs[i].start < evs[i + 1].start
        \/ evs[i].start = evs[i + 1].start /\ evs[i].dur >= evs[i + 1].dur

\* the events before event i in the lane that end after event i starts
OpenAt(evs, i) == {j \in 1..(i - 1) : evs[j].end > evs[i].start}

\* C17 as claimed: every lane is sorted and the depth of each of its
\* events is the number of earlier events of the lane still open at its
\* start
C17_AsClaimed ==
    ready => \A evs \in Lanes :
                /\ SortedLane(evs)
                /\ \A i \in 1..Len(evs) : evs[i].depth = Cardinality(OpenAt(evs, i))

\* C17 amended: every lane is sorted, and in a lane whose intervals are
\* pairwise nested or disjoint the depth of each event is the number of
\* earlier events of the lane still open at its start
C17_DepthCountsOpen ==
    ready => \A evs \in Lanes :
                /\ SortedLane(evs)
                /\ WellNested(evs) =>
                      \A i \in 1..Len(evs) : evs[i].depth = Cardinality(OpenAt(evs, i))

\* a well nested lane of three events, the last under one open event while
\* another one before it is closed
C17_Witness ==
    /\ ready
    /\ \E evs \in Lanes :
          /\ Len(evs) = 3 /\ WellNested(evs)
          /\ evs[3].depth = 1 /\ Cardinality(OpenAt(evs, 3)) = 1
          /\ evs[2].depth = 1

\* C18: two events of a lane with the same depth do not overlap: the later
\* one in the lane's order starts at or after the end of the earlier one
C18_SameDepthDisjoint ==
    ready => \A evs \in Lanes :
                \A i, j \in 1..Len(evs) :
                    (i < j /\ evs[i].depth = evs[j].depth) =>
                        evs[j].start >= evs[i].end

\* a lane with partially overlapping intervals in which two events of
\* positive duration share a depth
C18_Witness ==
    /\ ready
    /\ \E evs \in Lanes :
          /\ ~WellNested(evs)
          /\ \E i, j \in 1..Len(evs) :
                /\ i < j /\ evs[i].depth = evs[j].depth
                /\ evs[i].dur > 0 /\ evs[j].dur > 0

\* C19: a right click that hits event e makes e the selected and the
\* right-clicked event, hides the tooltip and shows the context menu; a
\* right click that hits nothing hides the context menu and leaves the
\* selection
C19_RightClick ==
    [][\A p \in HitPointers :
          ContextMenu(p[1], p[2]) =>
              IF HitAt(p) # Null
              THEN /\ selectedEvent' = HitAt(p)
                   /\ rightClickedEvent' = HitAt(p)
                   /\ tooltip' = FALSE
                   /\ contextMenu' = TRUE
              ELSE /\ contextMenu' = FALSE
                   /\ selectedEvent' = selectedEvent]_vars

\* a right click has hit an event: it is selected and right-clicked, the
\* menu is shown and the tooltip hidden; the grid also has a position that
\* misses every bar
C19_Witness ==
    /\ ready /\ contextMenu /\ ~tooltip
    /\ rightClickedEvent # Null /\ selectedEvent = rightClickedEvent
    /\ \E p \in HitPointers : HitAt(p) = Null

\* C20: after a click the selected event is the event under the pointer,
\* null when there is none; the view and the right-clicked event stay
C20_ClickSelects ==
    [][\A p \in HitPointers :
          Click(p[1], p[2]) =>
              /\ selectedEvent' = HitAt(p)
              /\ view' = view
              /\ rightClickedEvent' = rightClickedEvent]_vars

\* a click has selected another event than the right-clicked one, and the
\* grid has a position that clears the selection
C20_Witness ==
    /\ ready
    /\ selectedEvent # Null /\ rightClickedEvent # Null
    /\ selectedEvent # rightClickedEvent
    /\ \E p \in HitPointers : HitAt(p) = Null

(***************************************************************************)
(* Presses of the primary button as the browser delivers them: mousedown,  *)
(* mousemove events while the button is held, mouseup, and the click that  *)
(* follows the mouseup at the position of the release. gesture is null     *)
(* between presses and otherwise records the press in progress: whether    *)
(* the pointer has moved, whether the button is released, and              *)
(* selectedEvent and view.scale at the mousedown.                          *)
(***************************************************************************)
\* clientX, clientY: on the two bars of NestedData and on the ruler
PanPointers == {<<80, 110>>, <<80, 135>>, <<280, 30>>}

\* the position of the last mousedown or mousemove while the button is held
AtLastMouse(p) == p[1] = lastMouse.x /\ p[2] = lastMouse.y

InitPan ==
    /\ data \in Datasets \cup {LaneData}
    /\ win \in WindowSizes
    /\ InitEngine
    /\ NoDatabase

NextPan ==
    \/ Startup /\ UNCHANGED <<gesture, host>>
    \/ \E p \in PanPointers :
          /\ gesture = Null
          /\ MouseDown(0, p[1], p[2])
          /\ gesture' = [moved |-> FALSE, released |-> FALSE,
                         selectedEvent |-> selectedEvent, scale |-> view.scale]
          /\ UNCHANGED host
    \/ \E p \in PanPointers :
          /\ gesture = Null
          /\ MouseDown(2, p[1], p[2])
          /\ UNCHANGED <<gesture, host>>
    \/ \E p \in PanPointers :
          /\ gesture # Null /\ ~gesture.released /\ ~AtLastMouse(p)
          /\ MouseMove(p[1], p[2])
          /\ gesture' = [gesture EXCEPT !.moved = TRUE]
          /\ UNCHANGED host
    \/ \E p \in PanPointers :
          /\ gesture = Null
          /\ MouseMove(p[1], p[2])
          /\ UNCHANGED <<gesture, host>>
    \/ /\ gesture # Null /\ ~gesture.released
       /\ MouseUp
       /\ gesture' = [gesture EXCEPT !.released = TRUE]
       /\ UNCHANGED host
    \/ /\ gesture = Null
       /\ MouseUp
       /\ UNCHANGED <<gesture, host>>
    \/ /\ gesture # Null /\ gesture.released
       /\ Click(lastMouse.x, lastMouse.y)
       /\ gesture' = Null
       /\ UNCHANGED host
    \/ \E p \in PanPointers :
          /\ gesture = Null
          /\ ContextMenu(p[1], p[2])
          /\ UNCHANGED <<gesture, host>>
    \/ \E w \in WindowSizes :
          /\ gesture = Null
          /\ Resize(w)
          /\ UNCHANGED <<gesture, host>>

SpecPan == InitPan /\ [][NextPan]_vars

(***************************************************************************)
(* C21 - a pan gesture and the selection.                                  *)
(***************************************************************************)
\* the step is the click that ends a press during which the pointer moved
PanEnds ==
    /\ gesture # Null /\ gesture.released /\ gesture.moved
    /\ Click(lastMouse.x, lastMouse.y)

\* C21 as claimed: during a press of the primary button with one or more
\* pointer moves, and after the click that ends it, selectedEvent and the
\* scale are what they were at the mousedown
C21_AsClaimed ==
    [][/\ gesture' # Null =>
              /\ selectedEvent' = gesture'.selectedEvent
              /\ view'.scale = gesture'.scale
       /\ PanEnds =>
              /\ selectedEvent' = gesture.selectedEvent
              /\ view'.scale = gesture.scale]_vars

(***************************************************************************)
(* C22 - the panning flag.                                                 *)
(***************************************************************************)
\* where a mousemove at p would put the view before clamping
PanTarget(p) ==
    [x |-> QAdd(view.x, QInt(p[1] - lastMouse.x)), y |-> view.y + (p[2] - lastMouse.y),
     scale |-> view.scale]

\* C22: isDragging becomes true only by a mousedown of the primary button,
\* is false after every mouseup, and is left alone by a mousedown of another
\* button; a mousemove while it is true keeps the scale, moves x and y by
\* the pointer delta since lastMouse, clamped, and records the pointer
\* position, and a mousemove while it is false leaves the view
C22_PanningFlag ==
    [][/\ (~isDragging /\ isDragging') => \E p \in Pointers : MouseDown(0, p[1], p[2])
       /\ MouseUp => ~isDragging'
       /\ \A p \in Pointers : MouseDown(2, p[1], p[2]) => isDragging' = isDragging
       /\ \A p \in Pointers :
             (MouseMove(p[1], p[2]) /\ isDragging) =>
                 /\ view'.scale = view.scale
                 /\ view'.x = ClampX(PanTarget(p).x, view.scale, canvas, maxTraceTime)
                 /\ view'.y = ClampY(PanTarget(p).y, canvas, totalContentHeight)
                 /\ lastMouse' = [x |-> p[1], y |-> p[2]]
       /\ \A p \in Pointers :
             (MouseMove(p[1], p[2]) /\ ~isDragging) => view' = view]_vars

\* the button is held after a pan has moved y off the value resetView gave
\* it, with the pointer at the position of the last mousemove
C22_Witness ==
    /\ ready /\ isDragging /\ maxTraceTime > 0 /\ zooms = 0
    /\ view.y < TIMELINE_HEIGHT + 10
    /\ lastMouse = [x |-> 280, y |-> 30]

(***************************************************************************)
(* C23 - the context menu acts on the most recent right click.             *)
(***************************************************************************)
\* the step is a right click
RightClickStep == \E p \in HitPointers : ContextMenu(p[1], p[2])

\* C23: rightClickedEvent is what the most recent right click hit (null
\* after one that hit nothing, with the menu hidden); a menu action posts
\* one request, carrying its command and the detail of rightClickedEvent,
\* exactly when rightClickedEvent is not null and has a non-empty detail,
\* and nothing otherwise
C23_MenuActsOnRightClicked ==
    [][/\ \A p \in HitPointers :
             ContextMenu(p[1], p[2]) =>
                 /\ rightClickedEvent' = HitAt(p)
                 /\ HitAt(p) = Null => ~contextMenu'
       /\ ~RightClickStep => rightClickedEvent' = rightClickedEvent
       /\ \A c \in {"openFile", "copyPath"} :
             MenuClick(c) =>
                 IF rightClickedEvent # Null /\ rightClickedEvent.detail # <<>>
                 THEN posted' = <<[command |-> c, path |-> rightClickedEvent.detail]>>
                 ELSE posted' = <<>>]_vars

\* a menu action has posted the detail of the right-clicked event, and the
\* grid has a bar without detail and a position that misses every bar
C23_Witness ==
    /\ ready /\ ~contextMenu
    /\ rightClickedEvent # Null
    /\ posted = <<[command |-> "copyPath", path |-> rightClickedEvent.detail]>>
    /\ \E p \in HitPointers : HitAt(p) # Null /\ HitAt(p).detail = <<>>
    /\ \E p \in HitPointers : HitAt(p) = Null

(***************************************************************************)
(* C24 - order of the drawing steps of a frame.                            *)
(***************************************************************************)
\* the drawing steps of render() in the current state
Steps == renderSteps(threads, view, FitCanvas(win))

BarSteps(s) == {i \in 1..Len(s) : s[i].step = "bar"}

RulerSteps(s) == {i \in 1..Len(s) : s[i].step = "ruler"}

SeparatorSteps(s) == {i \in 1..Len(s) : s[i].step = "separator"}

\* the bars of each thread are drawn in one run, source lane before main
\* lane, that ends with the separator of the thread
ThreadsInOrder(s) ==
    /\ \A i \in BarSteps(s) :
          \E j \in SeparatorSteps(s) :
              /\ i < j /\ s[j].tid = s[i].tid
              /\ \A k \in i..j : s[k].step \in {"bar", "separator"} /\ s[k].tid = s[i].tid
    /\ \A i, j \in BarSteps(s) :
          (i < j /\ s[i].tid = s[j].tid) => ~(s[i].lane = "main" /\ s[j].lane = "source")
    /\ \A i, j \in SeparatorSteps(s) : s[i].tid = s[j].tid => i = j

\* C24 as claimed: the frame of a layout draws the ruler once, before every
\* bar, and the bars of each thread before its separator
C24_AsClaimed ==
    (frame # Null /\ threads # <<>>) =>
        /\ Cardinality(RulerSteps(Steps)) = 1
        /\ \A r \in RulerSteps(Steps) : \A i \in BarSteps(Steps) : r < i
        /\ ThreadsInOrder(Steps)

\* C24 amended: the frame of a layout draws, thread by thread, the bars of
\* the source lane, the bars of the main lane and the separator, and draws
\* the ruler once, as its last step, after every bar
C24_RulerLast ==
    (frame # Null /\ threads # <<>>) =>
        /\ RulerSteps(Steps) = {Len(Steps)}
        /\ \A i \in BarSteps(Steps) : i < Len(Steps)
        /\ ThreadsInOrder(Steps)

\* a panned frame of two threads: bars of both lanes of the first thread,
\* one of them reaching under the ruler, and both separators
C24_Witness ==
    /\ frame # Null /\ Len(threads) = 2
    /\ Cardinality(SeparatorSteps(Steps)) = 2
    /\ \E i, j \in BarSteps(Steps) :
          /\ Steps[i].lane = "source" /\ Steps[j].lane = "main"
          /\ Steps[i].tid = Steps[j].tid
          /\ Steps[i].bar.y < TIMELINE_HEIGHT
    /\ \E i, j \in BarSteps(Steps) : Steps[i].tid # Steps[j].tid

(***************************************************************************)
(* C25 - the tick step of the ruler.                                       *)
(***************************************************************************)
\* the candidates {1, 2, 2.5, 5} x pow
TickCandidates(pow) == {QMul(m, pow) : m \in {QInt(1), QInt(2), Q(5, 2), QInt(5)}}

\* the tick step of the ruler of the frame render() draws in the current state
RulerTick == Steps[Len(Steps)].tick

\* C25: at a finite positive scale, when one of the candidates is at least
\* the target time gap, the tick step of the ruler is the smallest such
\* candidate
C25_TickStep ==
    (frame # Null /\ IsFinite(view.scale) /\ QGt(view.scale, QInt(0))) =>
        LET targetGap == TargetTimeGap(view.scale)
            enough == {c \in TickCandidates(TickPow(targetGap)) : QGe(c, targetGap)}
        IN  enough # {} =>
                /\ RulerTick \in enough
                /\ \A c \in enough : QLe(RulerTick, c)

(***************************************************************************)
(* Lane classification as a function of the input: complete events and     *)
(* begin/end halves of one thread, named "F" or "Source", with the         *)
(* category "Source" or without category.                                  *)
(***************************************************************************)
LaneNames == {"F", "Source"}

LanePool ==
    LET plain == {XEvent(NumTid(1), n, ts, 1) : n \in LaneNames, ts \in 1..MaxPairTs}
                    \cup {BEvent(NumTid(1), n, ts) : n \in LaneNames, ts \in 1..MaxPairTs}
                    \cup {EEvent(NumTid(1), n, ts) : n \in LaneNames, ts \in 1..MaxPairTs}
    IN  plain \cup {WithCat(e, "Source") : e \in plain}

InitLane ==
    /\ data \in {[traceEvents |-> q] : q \in SeqsUpTo(LanePool, MaxPairEvents)}
    /\ win = DepthWindow
    /\ InitEngine
    /\ NoDatabase

SpecLane == InitLane /\ [][NextIngest]_vars

(***************************************************************************)
(* C26 - the lane of a ProcessedEvent.                                     *)
(***************************************************************************)
\* the ids of the ProcessedEvents in the source lanes, and in the main lanes
SourceIds ==
    UNION {{threads[t].sourceEvents[i].id : i \in 1..Len(threads[t].sourceEvents)}
           : t \in 1..Len(threads)}

MainIds ==
    UNION {{threads[t].mainEvents[i].id : i \in 1..Len(threads[t].mainEvents)}
           : t \in 1..Len(threads)}

\* the raw event the ProcessedEvent emitted by raw event j takes its name,
\* start and detail from: the event itself, or the begin an end is paired with
OriginOf(events, j) ==
    IF events[j].ph = "e" THEN events[MatchOf(events, j)] ELSE events[j]

\* C26: every ProcessedEvent is in exactly one lane: the source lane when
\* the category or the name of the raw event it takes its name, start and
\* detail from is "Source", the main lane otherwise
C26_LaneOfOrigin ==
    ready =>
        LET events == TraceEvents(data)
        IN  \A j \in Emitting(events) :
                LET id == <<CurrentEpoch, Cardinality({m \in Emitting(events) : m <= j})>>
                IN  /\ (id \in SourceIds) <=> IsSource(OriginOf(events, j))
                    /\ (id \in MainIds) <=> ~IsSource(OriginOf(events, j))

(***************************************************************************)
(* C27 - the content is at least as wide as the drawable width.            *)
(***************************************************************************)
\* C27: with a dataset of positive extent loaded, maxTraceTime * scale is
\* at least the canvas width minus the two side margins
C27_ContentFillsWidth ==
    (ready /\ threads # <<>> /\ maxTraceTime > 0) =>
        QGe(QMul(QInt(maxTraceTime), view.scale), QInt(canvas.width - (2 * MARGIN_SIDE)))

(***************************************************************************)
(* C28 - tooltip and context menu.                                         *)
(***************************************************************************)
\* C28: the tooltip and the context menu are never displayed together
C28_TooltipOrMenu == ~(tooltip /\ contextMenu)

\* the context menu is displayed without the tooltip while the pointer
\* positions include one, below the ruler, over a bar
C28_Witness ==
    /\ ready /\ contextMenu /\ ~tooltip
    /\ \E p \in Pointers : p[2] >= TIMELINE_HEIGHT /\ HitAt(p) # Null

(***************************************************************************)
(* The CompilationDatabase of the extension host. dbFile is the configured *)
(* compileCommands.path and the content of compile_commands.json under     *)
(* each path: a version record, Null where the file does not exist. A call *)
(* of loadDatabase is a record: the path it computed, its phase,           *)
(* "reading" from its start to the moment readFile has read the file,      *)
(* "read" until the code after the await has run, then "done"; and the     *)
(* content it read. Reads in flight together finish in any order.          *)
(***************************************************************************)
Versions == {[version |-> n] : n \in 1..MaxVersions}

\* the values of clangTimeTracer.compileCommands.path
Paths == {"build", "out"}

\* the content at the configured path
Watched == dbFile.files[dbFile.path]

\* the entries commands holds after the loop over the parsed content v
EntriesOf(v) == {[file |-> "a.cpp", content |-> v]}

\* the record of a call of loadDatabase(folder) up to its await, in the file
\* system fs: the call returns at once when the file does not exist
StartedLoad(fs) ==
    [path |-> fs.path,
     phase |-> IF fs.files[fs.path] = Null THEN "done" ELSE "reading",
     content |-> Null]

\* this.loadingPromise = this.loadDatabase(folder), called in file system fs
loadDatabase(fs) ==
    /\ Len(loads) < MaxLoads
    /\ loads' = Append(loads, StartedLoad(fs))
    /\ loadingPromise' = Len(loads) + 1

\* the constructor with a workspace folder: initWatcher, loadDatabase
InitDb ==
    /\ data = Null
    /\ win = DepthWindow
    /\ InitEngine
    /\ dbFile \in [path : {"build"}, files : [Paths -> {Null} \cup Versions]]
    /\ commands = {}
    /\ clearedAt = 0
    /\ loads = <<StartedLoad(dbFile)>>
    /\ loadingPromise = 1

\* the watched file is written with another content:
\* watcher.onDidChange(reload)
OnDidChange(v) ==
    /\ Watched # Null /\ v # Watched
    /\ dbFile' = [dbFile EXCEPT !.files[dbFile.path] = v]
    /\ loadDatabase(dbFile')
    /\ UNCHANGED <<commands, clearedAt>>

\* the watched file is created: watcher.onDidCreate(reload)
OnDidCreate(v) ==
    /\ Watched = Null
    /\ dbFile' = [dbFile EXCEPT !.files[dbFile.path] = v]
    /\ loadDatabase(dbFile')
    /\ UNCHANGED <<commands, clearedAt>>

\* the watched file is deleted:
\* watcher.onDidDelete(() => this.commands.clear())
OnDidDelete ==
    /\ Watched # Null
    /\ dbFile' = [dbFile EXCEPT !.files[dbFile.path] = Null]
    /\ commands' = {}
    /\ clearedAt' = Len(loads)
    /\ UNCHANGED <<loads, loadingPromise>>

\* onDidChangeConfiguration of clangTimeTracer.compileCommands.path to p:
\* initWatcher and loadDatabase for the new path
OnDidChangeConfiguration(p) ==
    /\ p # dbFile.path
    /\ dbFile' = [dbFile EXCEPT !.path = p]
    /\ loadDatabase(dbFile')
    /\ UNCHANGED <<commands, clearedAt>>

\* fs.promises.readFile of call l reads the file at the path the call
\* computed: its content, or an error the catch block logs when the file no
\* longer exists
ReadFile(l) ==
    /\ loads[l].phase = "reading"
    /\ loads' = [loads EXCEPT ![l] =
                    IF dbFile.files[loads[l].path] = Null
                    THEN [@ EXCEPT !.phase = "done"]
                    ELSE [@ EXCEPT !.phase = "read",
                                   !.content = dbFile.files[loads[l].path]]]
    /\ UNCHANGED <<dbFile, commands, loadingPromise, clearedAt>>

\* the code of call l after the await: JSON.parse, this.commands.clear(),
\* this.commands.set(...) for every entry
ContinueLoad(l) ==
    /\ loads[l].phase = "read"
    /\ loads' = [loads EXCEPT ![l].phase = "done"]
    /\ commands' = EntriesOf(loads[l].content)
    /\ UNCHANGED <<dbFile, loadingPromise, clearedAt>>

NextDb ==
    \/ \E v \in Versions : OnDidChange(v) /\ UNCHANGED <<webview, gesture>>
    \/ \E v \in Versions : OnDidCreate(v) /\ UNCHANGED <<webview, gesture>>
    \/ OnDidDelete /\ UNCHANGED <<webview, gesture>>
    \/ \E p \in Paths :
          OnDidChangeConfiguration(p) /\ UNCHANGED <<webview, gesture>>
    \/ \E l \in 1..Len(loads) : ReadFile(l) /\ UNCHANGED <<webview, gesture>>
    \/ \E l \in 1..Len(loads) : ContinueLoad(l) /\ UNCHANGED <<webview, gesture>>

SpecDb == InitDb /\ [][NextDb]_vars

(***************************************************************************)
(* C29 - overlapping loads of the compilation database.                    *)
(***************************************************************************)
\* every call of loadDatabase has finished
AllFinished == \A l \in 1..Len(loads) : loads[l].phase = "done"

\* the most recently started call of loadDatabase
LatestLoad == loads[Len(loads)]

\* C29: once every load has finished, commands holds the entries read by
\* the most recently started load when that load read the file, and is
\* empty when no load has started since the delete handler cleared it
C29_LatestLoadWins ==
    AllFinished =>
        /\ (clearedAt # Len(loads) /\ LatestLoad.content # Null) =>
              commands = EntriesOf(LatestLoad.content)
        /\ clearedAt = Len(loads) => commands = {}

====
